---- MODULE Spec2Model ----
(***************************************************************************)
(* Model of the highlight cache and highlight orchestration of the CMC     *)
(* review front end (App component, src/frontend/src/logService.js).       *)
(*                                                                         *)
(* The browser runs one control flow: every handler runs to its next       *)
(* await, and every continuation after an await is a step of its own.      *)
(* Calls of handleHighlightSection that get past the length guard are     *)
(* kept in the log reqs; the position of a call in reqs is its issue       *)
(* order.  The blob URL created by the call at position r is <<"hl", r>>   *)
(* (URL.createObjectURL never returns the same URL twice).  A request in   *)
(* flight carries the document version and the number of cache clears at   *)
(* the time it was sent, and a cache entry keeps those of the request that *)
(* made it (fields ver and clr): they are bookkeeping of the model, the    *)
(* code stores blobUrl, text and pageNum only.  So are the variables       *)
(* retired and lastCall.                                                   *)
(*                                                                         *)
(* Specifications: Spec (highlight cache and version changes), SpecCalls   *)
(* and SpecCallsFair (every call recorded; timers fire), SpecDoc (fetches  *)
(* of the document metadata), SpecPage (requests from the result list and  *)
(* the page shown), SpecNav (SpecPage with the page buttons of the PDF     *)
(* viewer), SpecLocator (one call of detectMatchedPage,                    *)
(* src/unnamed/part_000, on excerpts and page indexes drawn by the         *)
(* initial state), SpecViewer (detectMatchedPage and the auto-detect       *)
(* effect of CmcViewer on page lists that may be malformed), SpecNormalize *)
(* (one call of normalize), SpecFinalText, SpecDiff and SpecUpdate (the    *)
(* DiffInline component, src/unnamed/part_002), SpecPanel (CommentPanel    *)
(* with GuidelineValidator, src/unnamed/part_003), SpecBatch (CommentPanel *)
(* over several batches).                                                  *)
(***************************************************************************)
EXTENDS Integers, Sequences, FiniteSets, TLC

VARIABLES
    pdfLoaded,            \* useState(false): a PDF has been uploaded
    documentData,         \* version of the page index held, 0 = null
    currentPdfPage,       \* useState(1)
    pdfBlobUrl,           \* useState(null): URL handed to the PDF viewer
    currentPdfObjectRef,  \* useRef(null): blob URL to revoke on replacement
    isHighlighting,       \* useState(false)
    backendError,         \* useState(null)
    cache,                \* highlightCacheRef.current: Map key -> entry
    reqs,                 \* log of the calls of handleHighlightSection
    net,                  \* POST /cmc/highlight requests in flight
    timers,               \* pending setTimeout(() => setIsHighlighting(false))
    tasks,                \* pending continuations of the document handlers
    revoked,              \* blob URLs passed to URL.revokeObjectURL
    docVersion,           \* version of the document held by the backend
    clears,               \* number of highlightCacheRef.current.clear() calls
    retired,              \* keys the cache held when it was cleared and
                          \* that no call has asked for since
    lastCall,             \* excerpt of the call of handleHighlightSection
                          \* the step made, 0 when the step made none
    sectionText,          \* detectMatchedPage: the excerpt it is called with
    documentPages,        \* detectMatchedPage: documentData.pages
    matchedPage,          \* detectMatchedPage: what it returned
    pageScores,           \* detectMatchedPage: score of each page scanned
    cmcViewer,            \* CmcViewer: matchedPage, matchedScore,
                          \* hasJumpedRef.current, the page passed to
                          \* onPageChange, how the auto-detect effect ended
    normArg,              \* normalize: the value it is called with
    normResult,           \* normalize: how the call ended
    diffSegments,         \* DiffInline: the prop diffSegments
    states,               \* DiffInline: useState([]), as of the last render
    queue,                \* DiffInline: setStates calls not yet rendered
    effects,              \* DiffInline: "done", or what the last render
                          \* changed ("segments", "states") while its
                          \* effects have not run yet
    delivered,            \* DiffInline: the last call of onTextChange
    generation,           \* DiffInline: number of segment lists received,
                          \* and the number of the list whose initial
                          \* decisions states was made from (bookkeeping)
    uiMode,               \* CommentPanel: useState("default")
    commentCache,         \* CommentPanel: per result, selectedCmcIndex and
                          \* the sections that hold sectionLlmData
    validationStatus,     \* CommentPanel: useState(null)
    currentResultIndex,   \* App: index of the result shown by CommentPanel
    validatedFor,         \* result and section of the rewrite the last
                          \* validation was run on (bookkeeping)
    approved,             \* the last POST /pdf/replace-paragraph sent by
                          \* 'Approve Changes' (bookkeeping)
    batch,                \* App: number of the batch batchResults holds
                          \* (bookkeeping)
    rewrittenFor          \* per result index and section, the batch whose
                          \* result the rewrite held in commentCache was
                          \* generated for, 0 without one (bookkeeping)

\* the variables of the App component and of its bookkeeping
appVars == << pdfLoaded, documentData, currentPdfPage, pdfBlobUrl,
              currentPdfObjectRef, isHighlighting, backendError, cache, reqs,
              net, timers, tasks, revoked, docVersion, clears, retired,
              lastCall >>

\* the variables of a run of detectMatchedPage
locVars == << sectionText, documentPages, matchedPage, pageScores >>

\* the variables of the CmcViewer component and of a call of its normalize
viewVars == << cmcViewer, normArg, normResult >>

\* the variables of the DiffInline component
diffVars == << diffSegments, states, queue, effects, delivered, generation >>

\* the variables of the CommentPanel component
panelVars == << uiMode, commentCache, validationStatus, currentResultIndex,
                validatedFor, approved, batch, rewrittenFor >>

\* the bookkeeping of the batches
batchVars == << batch, rewrittenFor >>

\* the variables the App component does not touch
otherVars == << locVars, viewVars, diffVars, panelVars >>

vars == << pdfLoaded, documentData, currentPdfPage, pdfBlobUrl,
           currentPdfObjectRef, isHighlighting, backendError, cache, reqs,
           net, timers, tasks, revoked, docVersion, clears, retired,
           lastCall, sectionText, documentPages, matchedPage, pageScores,
           cmcViewer, normArg, normResult, diffSegments, states, queue,
           effects, delivered, generation, uiMode, commentCache,
           validationStatus, currentResultIndex, validatedFor, approved,
           batch, rewrittenFor >>

----------------------------------------------------------------------------
(* Bounds of the model *)

MaxRequests == 3      \* calls of handleHighlightSection in one behaviour
MaxVersions == 2      \* document versions (uploads and applied edits)
MaxPages == 2         \* pages of a document given to detectMatchedPage
MaxCalls == 2         \* calls past the length guard in SpecCalls
MaxLen == 3           \* length of the strings given to normalize
MaxSegs == 3          \* segments of a list given to the final-text effect
MaxArrivals == 2      \* segment lists a DiffInline receives
MaxQueue == 2         \* setStates calls waiting for one render
MaxResults == 2       \* results of a batch shown by CommentPanel
MaxSections == 2      \* CMC sections (cmc_hits) of a result
MaxBatches == 2       \* batches processed by handleProcessBatch

----------------------------------------------------------------------------
(* JavaScript values *)

Null == << "null", 0 >>
NaN == << "nan", 0 >>
Num(n) == << "num", n >>

\* JavaScript truthiness of null, NaN and numbers
Truthy(v) == v[1] = "num" /\ v[2] # 0

\* URLs: null, the static "/cmc.pdf", a blob made from a highlight response
\* ("hl"), a blob made from an edited PDF ("upd")
NullUrl == << "null", 0 >>
StaticPdfUrl == << "static", 0 >>
HighlightBlob(r) == << "hl", r >>
UpdateBlob(v) == << "upd", v >>

\* url && url.startsWith('blob:')
IsBlob(url) == url[1] \in {"hl", "upd"}

----------------------------------------------------------------------------
(* Excerpts, as sequences of UTF-16 code units *)

\* "dissolution test method"
ExcerptA ==
    << 100, 105, 115, 115, 111, 108, 117, 116, 105, 111, 110, 32,
       116, 101, 115, 116, 32, 109, 101, 116, 104, 111, 100 >>

\* "stability storage limits"
ExcerptB ==
    << 115, 116, 97, 98, 105, 108, 105, 116, 121, 32, 115, 116, 111,
       114, 97, 103, 101, 32, 108, 105, 109, 105, 116, 115 >>

\* "assay limits" (shorter than the minimum length)
ExcerptShort ==
    << 97, 115, 115, 97, 121, 32, 108, 105, 109, 105, 116, 115 >>

Excerpts == << ExcerptA, ExcerptB, ExcerptShort, << >> >>

TextIds == DOMAIN Excerpts

----------------------------------------------------------------------------
(* hashKey: djb2 with xor, on 32-bit integers, printed in base 36 *)

RECURSIVE BitXor(_, _)
BitXor(a, b) ==
    IF a = 0 THEN b
    ELSE IF b = 0 THEN a
    ELSE (((a % 2) + (b % 2)) % 2) + 2 * BitXor(a \div 2, b \div 2)

\* One round of the loop, h kept as two 16-bit halves <<hi, lo>>:
\* h = (h * 33) ^ c, truncated to 32 bits by the ^ operator
HashStep(h, c) ==
    LET lo33 == h[2] * 33
        hi33 == h[1] * 33 + (lo33 \div 65536)
    IN  << hi33 % 65536, BitXor(lo33 % 65536, c) >>

RECURSIVE HashLoop(_, _, _)
HashLoop(h, str, i) ==
    IF i > Len(str) THEN h ELSE HashLoop(HashStep(h, str[i]), str, i + 1)

\* (h >>> 0).toString(36): base-36 digits, most significant first
RECURSIVE ToString36(_)
ToString36(h) ==
    LET qhi == h[1] \div 36
        rest == (h[1] % 36) * 65536 + h[2]
        qlo == rest \div 36
        digit == rest % 36
    IN  IF qhi = 0 /\ qlo = 0 THEN << digit >>
        ELSE Append(ToString36(<< qhi, qlo >>), digit)

\* hashKey starting from a value that grows with the calls made so far
hashKeyCounting(str) ==
    ToString36(HashLoop(<< 0, 5381 + Len(reqs) >>, str, 1))

\* 5381 = 0 * 65536 + 5381
hashKey(str) == ToString36(HashLoop(<< 0, 5381 >>, str, 1))

KeyOf == [t \in TextIds |-> hashKey(Excerpts[t])]

----------------------------------------------------------------------------
(* The x-highlight-page response header and parseInt(header, 10) *)

IsDigit(ch) == ch \in {"0", "1", "2", "3", "4", "5", "6", "7", "8", "9"}

DigitVal(ch) ==
    CASE ch = "0" -> 0 [] ch = "1" -> 1 [] ch = "2" -> 2 [] ch = "3" -> 3
      [] ch = "4" -> 4 [] ch = "5" -> 5 [] ch = "6" -> 6 [] ch = "7" -> 7
      [] ch = "8" -> 8 [] ch = "9" -> 9

\* value of the longest prefix of digits of s from position i, acc so far
RECURSIVE DigitsFrom(_, _, _)
DigitsFrom(s, i, acc) ==
    IF i > Len(s) \/ ~IsDigit(s[i]) THEN acc
    ELSE DigitsFrom(s, i + 1, acc * 10 + DigitVal(s[i]))

\* parseInt(s, 10): optional sign, then digits; NaN when no digit follows
parseInt(s) ==
    LET neg == Len(s) >= 1 /\ s[1] = "-"
        start == IF Len(s) >= 1 /\ s[1] \in {"-", "+"} THEN 2 ELSE 1
    IN  IF start > Len(s) \/ ~IsDigit(s[start]) THEN NaN
        ELSE IF neg THEN Num(0 - DigitsFrom(s, start, 0))
        ELSE Num(DigitsFrom(s, start, 0))

\* header values the highlight service may send; << >> is a missing header
Headers == { << >>, << "2" >> }

\* pageNum as computed in handleHighlightSection from the header
PageNumOf(hdr) == IF hdr = << >> THEN Null ELSE parseInt(hdr)

\* !isNaN(pageNum) && pageNum > 0
IsPageHint(pageNum) == pageNum[1] = "num" /\ pageNum[2] > 0

----------------------------------------------------------------------------
(* The highlight cache, a Map *)

EmptyMap == [k \in {} |-> Null]

\* cache.has(sectionText): the lookup by the raw text, which is no key
CacheHasByText(key) == FALSE

CacheHas(key) == key \in DOMAIN cache

CacheSet(key, entry) ==
    [k \in DOMAIN cache \cup {key} |-> IF k = key THEN entry ELSE cache[k]]

----------------------------------------------------------------------------
(* Texts of the page locator, as sequences of characters.  \s of the       *)
(* regular expressions is taken over the blank, the tab and the newline.   *)

IsSpace(ch) == ch \in {" ", "\t", "\n"}

UpperCase ==
    << "A", "B", "C", "D", "E", "F", "G", "H", "I", "J", "K", "L", "M",
       "N", "O", "P", "Q", "R", "S", "T", "U", "V", "W", "X", "Y", "Z" >>

LowerCase ==
    << "a", "b", "c", "d", "e", "f", "g", "h", "i", "j", "k", "l", "m",
       "n", "o", "p", "q", "r", "s", "t", "u", "v", "w", "x", "y", "z" >>

\* .toLowerCase() on one character
ToLower(ch) ==
    IF \E i \in DOMAIN UpperCase : UpperCase[i] = ch
    THEN LowerCase[CHOOSE i \in DOMAIN UpperCase : UpperCase[i] = ch]
    ELSE ch

\* position of the last newline in the run of whitespace that starts at i,
\* last when there is none: where the greedy \s*\n ends
RECURSIVE LastNewline(_, _, _)
LastNewline(s, i, last) ==
    IF i > Len(s) \/ ~IsSpace(s[i]) THEN last
    ELSE LastNewline(s, i + 1, IF s[i] = "\n" THEN i ELSE last)

\* .replace(/-\s*\n/g, "")
RECURSIVE Dehyphenate(_, _)
Dehyphenate(s, i) ==
    IF i > Len(s) THEN << >>
    ELSE IF s[i] = "-" /\ LastNewline(s, i + 1, 0) # 0
    THEN Dehyphenate(s, LastNewline(s, i + 1, 0) + 1)
    ELSE << s[i] >> \o Dehyphenate(s, i + 1)

\* .replace(/\s+/g, " ")
RECURSIVE CollapseSpaces(_, _)
CollapseSpaces(s, i) ==
    IF i > Len(s) THEN << >>
    ELSE IF ~IsSpace(s[i]) THEN << s[i] >> \o CollapseSpaces(s, i + 1)
    ELSE IF i > 1 /\ IsSpace(s[i - 1]) THEN CollapseSpaces(s, i + 1)
    ELSE << " " >> \o CollapseSpaces(s, i + 1)

\* .toLowerCase()
ToLowerCase(s) == [i \in DOMAIN s |-> ToLower(s[i])]

\* .trim()
RECURSIVE Trim(_)
Trim(s) ==
    IF s = << >> THEN s
    ELSE IF IsSpace(s[1]) THEN Trim(Tail(s))
    ELSE IF IsSpace(s[Len(s)]) THEN Trim(SubSeq(s, 1, Len(s) - 1))
    ELSE s

\* the chain applied to the excerpt and to the text of every page
Normalize(text) == Trim(ToLowerCase(CollapseSpaces(Dehyphenate(text, 1), 1)))

\* .split(" "): the pieces between the blanks, cur being the piece begun
RECURSIVE Split(_, _, _)
Split(s, i, cur) ==
    IF i > Len(s) THEN << cur >>
    ELSE IF s[i] = " " THEN << cur >> \o Split(s, i + 1, << >>)
    ELSE Split(s, i + 1, Append(cur, s[i]))

\* IsToken keeping the words of 5 characters too
IsTokenFromFive(w) == Len(w) > 4

\* (w) => w.length > 5
IsToken(w) == Len(w) > 5

\* contextNorm.split(" ").filter((w) => w.length > 5)
Tokenize(contextNorm) == SelectSeq(Split(contextNorm, 1, << >>), IsToken)

\* Includes matching whole words of the page only
IncludesWord(pageNorm, w) ==
    \E k \in DOMAIN Split(pageNorm, 1, << >>) :
        Split(pageNorm, 1, << >>)[k] = w

\* pageNorm.includes(w)
Includes(pageNorm, w) ==
    \E j \in 1 .. (Len(pageNorm) - Len(w) + 1) :
        SubSeq(pageNorm, j, j + Len(w) - 1) = w

\* tokens.forEach((w) => { if (pageNorm.includes(w)) score++; }), from the
\* i-th token on
RECURSIVE PageScore(_, _, _)
PageScore(tokens, pageNorm, i) ==
    IF i > Len(tokens) THEN 0
    ELSE (IF Includes(pageNorm, tokens[i]) THEN 1 ELSE 0)
         + PageScore(tokens, pageNorm, i + 1)

\* p.text || ""
PageText(p) == IF "text" \in DOMAIN p THEN p.text ELSE << >>

\* score of page p for the tokens of the excerpt
ScoreOf(p, tokens) == PageScore(tokens, Normalize(PageText(p)), 1)

\* IsBetter letting an equal score replace the best page
IsBetterOrEqual(score, bestScore) == score >= bestScore

\* if (score > bestScore) { bestScore = score; bestPage = p.page_number; }
IsBetter(score, bestScore) == score > bestScore

\* ScanStep taking every page that matches at all
ScanStepAnyMatch(best, p, tokens) ==
    IF ScoreOf(p, tokens) > 0
    THEN [ bestPage |-> Num(p.page_number),
           bestScore |-> ScoreOf(p, tokens) ]
    ELSE best

\* one round of the loop over documentData.pages
ScanStep(best, p, tokens) ==
    IF IsBetter(ScoreOf(p, tokens), best.bestScore)
    THEN [ bestPage |-> Num(p.page_number),
           bestScore |-> ScoreOf(p, tokens) ]
    ELSE best

\* ScanStart with a best score below every score
ScanStartBelowZero == [ bestPage |-> Null, bestScore |-> 0 - 1 ]

\* let bestPage = null; let bestScore = 0;
ScanStart == [ bestPage |-> Null, bestScore |-> 0 ]

\* the loop from the i-th page on
RECURSIVE ScanPages(_, _, _, _)
ScanPages(best, pages, i, tokens) ==
    IF i > Len(pages) THEN best
    ELSE ScanPages(ScanStep(best, pages[i], tokens), pages, i + 1, tokens)

\* documentData is null, or has no pages field
NoDocument == [ defined |-> FALSE, pages |-> << >> ]

\* documentData with the page records pages
Document(pages) == [ defined |-> TRUE, pages |-> pages ]

\* !documentData?.pages || !sectionText
LocatorGuard(text, doc) == ~doc.defined \/ Len(text) = 0

\* reading and normalising the text of page record p ends by a TypeError:
\* p is null (p.text), or p.text is a truthy value that is not a string
\* ((p.text || "").replace is not a function)
TextThrows(p) == "page_number" \notin DOMAIN p \/ "text_is" \in DOMAIN p

\* the loop over the pages ends by an exception: it has no break, so it
\* reaches every page of the index
ScanThrows(pages) == \E i \in DOMAIN pages : TextThrows(pages[i])

\* the try block with its catch (e) { return null; }
detectMatchedPage(text, doc) ==
    IF LocatorGuard(text, doc) THEN Null
    ELSE LET tokens == Tokenize(Normalize(text))
         IN  IF Len(tokens) = 0 THEN Null
             ELSE IF ScanThrows(doc.pages) THEN Null
             ELSE ScanPages(ScanStart, doc.pages, 1, tokens).bestPage

----------------------------------------------------------------------------
(* CmcViewer (src/unnamed/part_003): its function normalize and its         *)
(* auto-detect effect, a second copy of the page locator.  A call ends by  *)
(* a value or by an exception.                                             *)

\* the JavaScript value undefined, and a string value
Undefined == [ type |-> "undefined" ]

Str(chars) == [ type |-> "string", chars |-> chars ]

\* how a call ends: return value, or TypeError
Returns(value) == [ threw |-> FALSE, value |-> value ]

TypeError == [ threw |-> TRUE ]

\* function normalize(text) { return text.replace(...)...trim(); }
\* text.replace of undefined is a TypeError
normalize(text) ==
    IF text.type = "undefined" THEN TypeError
    ELSE Returns(Normalize(text.chars))

\* !document || !cmcContext || !document.pages?.length
ViewerGuard(cmcContext, document) ==
    ~document.defined \/ Len(cmcContext) = 0 \/ Len(document.pages) = 0

\* the state of CmcViewer after its first render
ViewerStart ==
    [ matchedPage |-> Null, matchedScore |-> 0, hasJumped |-> FALSE,
      onPageChange |-> Null, effect |-> "pending" ]

\* score needed for the automatic jump: bestScore >= 5
AutoJumpScore == 5

\* bestPage && bestScore >= 5 && !hasJumpedRef.current
AutoJumps(best) == best.bestPage # Null /\ best.bestScore >= AutoJumpScore

\* the effect run with cmcContext and document on the component state v:
\* no try block, no return on an empty token list
AutoDetectEffect(v, cmcContext, document) ==
    IF ViewerGuard(cmcContext, document)
    THEN [ v EXCEPT !.effect = "done" ]
    ELSE IF ScanThrows(document.pages)
    THEN [ v EXCEPT !.hasJumped = FALSE, !.effect = "threw" ]
    ELSE LET tokens == Tokenize(normalize(Str(cmcContext)).value)
             best == ScanPages(ScanStart, document.pages, 1, tokens)
         IN  [ matchedPage |-> best.bestPage,
               matchedScore |-> best.bestScore,
               hasJumped |-> AutoJumps(best),
               onPageChange |-> IF AutoJumps(best) THEN best.bestPage
                                ELSE v.onPageChange,
               effect |-> "done" ]

----------------------------------------------------------------------------
(* Inputs of the page locator: texts of pages, page indexes, excerpts *)

\* "alphabet bananas"
PageBananas ==
    << "a", "l", "p", "h", "a", "b", "e", "t", " ", "b", "a", "n", "a",
       "n", "a", "s" >>

\* "alphabet crocodile diagram"
PageCrocodile ==
    << "a", "l", "p", "h", "a", "b", "e", "t", " ", "c", "r", "o", "c",
       "o", "d", "i", "l", "e", " ", "d", "i", "a", "g", "r", "a", "m" >>

\* "Alphabet  Croco-\ndile\nDIAGRAM "
PageBroken ==
    << "A", "l", "p", "h", "a", "b", "e", "t", " ", " ", "C", "r", "o",
       "c", "o", "-", "\n", "d", "i", "l", "e", "\n", "D", "I", "A", "G",
       "R", "A", "M", " " >>

\* "the bananasplit diagrams"
PageLonger ==
    << "t", "h", "e", " ", "b", "a", "n", "a", "n", "a", "s", "p", "l",
       "i", "t", " ", "d", "i", "a", "g", "r", "a", "m", "s" >>

\* ""
PageBlank ==
    << >>

\* a page record without a text field
PageWithoutText(n) == [ page_number |-> n ]

PageWithText(n, text) == [ page_number |-> n, text |-> text ]

PageTexts == { PageBananas, PageCrocodile, PageBroken, PageLonger, PageBlank }

\* the page records a page with number n may be
PageRecords(n) ==
    { PageWithText(n, text) : text \in PageTexts } \cup { PageWithoutText(n) }

\* pages of the documents of up to MaxPages pages: the index holds the pages
\* in the order of the document, the i-th record being page i
PageLists ==
    UNION { { pages \in [1 .. n -> UNION { PageRecords(i) : i \in 1 .. n }] :
                \A i \in 1 .. n : pages[i].page_number = i }
            : n \in 0 .. MaxPages }

Documents == { Document(pages) : pages \in PageLists } \cup { NoDocument }

\* "bananas crocodile diagram"
TextExample ==
    << "b", "a", "n", "a", "n", "a", "s", " ", "c", "r", "o", "c", "o",
       "d", "i", "l", "e", " ", "d", "i", "a", "g", "r", "a", "m" >>

\* "a an the"
TextShortWords ==
    << "a", " ", "a", "n", " ", "t", "h", "e" >>

\* ""
TextEmpty ==
    << >>

\* "alphabet"
TextAlphabet ==
    << "a", "l", "p", "h", "a", "b", "e", "t" >>

\* "Bananas\n dia-\ngram"
TextBroken ==
    << "B", "a", "n", "a", "n", "a", "s", "\n", " ", "d", "i", "a", "-",
       "\n", "g", "r", "a", "m" >>

\* "alpha banana"
TextBanana ==
    << "a", "l", "p", "h", "a", " ", "b", "a", "n", "a", "n", "a" >>

\* "diagram diagram"
TextTwice ==
    << "d", "i", "a", "g", "r", "a", "m", " ", "d", "i", "a", "g", "r",
       "a", "m" >>

\* "storage limits"
TextStorage ==
    << "s", "t", "o", "r", "a", "g", "e", " ", "l", "i", "m", "i", "t",
       "s" >>

\* "alpha"
TextAlpha ==
    << "a", "l", "p", "h", "a" >>

SectionTexts ==
    { TextExample, TextShortWords, TextEmpty, TextAlphabet, TextBroken,
      TextBanana, TextTwice, TextStorage, TextAlpha }

\* a null entry of the page list
PageNull == [ is_null |-> TRUE ]

\* a page record whose text is a number
PageWithNumberText(n) == [ page_number |-> n, text_is |-> "number" ]

\* the page records page n may be, the malformed ones included
ViewerPageRecords(n) == PageRecords(n) \cup { PageNull, PageWithNumberText(n) }

\* page lists of up to MaxPages records, well formed or not
ViewerPageLists ==
    UNION { { pages \in [1 .. n -> UNION { ViewerPageRecords(i) : i \in 1 .. n }] :
                \A i \in 1 .. n : "page_number" \in DOMAIN pages[i]
                                     => pages[i].page_number = i }
            : n \in 0 .. MaxPages }

ViewerDocuments ==
    { Document(pages) : pages \in ViewerPageLists } \cup { NoDocument }

\* "alphabet crocodile diagram alphabet crocodile"
TextFiveWords ==
    << "a", "l", "p", "h", "a", "b", "e", "t", " ", "c", "r", "o", "c",
       "o", "d", "i", "l", "e", " ", "d", "i", "a", "g", "r", "a", "m",
       " ", "a", "l", "p", "h", "a", "b", "e", "t", " ", "c", "r", "o",
       "c", "o", "d", "i", "l", "e" >>

\* the excerpts CmcViewer is given as llmResult.cmc_context_used
ViewerTexts ==
    { TextExample, TextShortWords, TextEmpty, TextBroken, TextFiveWords }

\* characters of the strings normalize is called with
NormChars == { "A", "b", "-", " ", "\n" }

\* the strings of up to n of these characters
RECURSIVE StringsUpTo(_)
StringsUpTo(n) ==
    IF n = 0 THEN { << >> }
    ELSE StringsUpTo(n - 1)
         \cup { Append(str, c) : str \in StringsUpTo(n - 1), c \in NormChars }

\* the values normalize is called with
NormArgs == { Str(chars) : chars \in StringsUpTo(MaxLen) } \cup { Undefined }

----------------------------------------------------------------------------
(* DiffInline (src/unnamed/part_002): decisions per diff segment and the   *)
(* final text built from them.  A segment is a record op, orig, suggested; *)
(* texts are sequences of characters; a position of states past its        *)
(* length reads as undefined.                                              *)

Segment(op, orig, suggested) ==
    [ op |-> op, orig |-> orig, suggested |-> suggested ]

\* states[idx], undefined past the end of the array
StateAt(st, idx) == IF idx \in DOMAIN st THEN st[idx] ELSE "undefined"

\* InitialState leaving the equal segments pending too
InitialStatePending(seg) == "pending"

\* seg.op === "equal" ? "accepted" : "pending"
InitialState(seg) == IF seg.op = "equal" THEN "accepted" ELSE "pending"

\* diffSegments.map((seg) => seg.op === "equal" ? "accepted" : "pending")
InitialStates(segs) == [ i \in DOMAIN segs |-> InitialState(segs[i]) ]

\* DeleteText keeping the original of a rejected delete only
DeleteTextRejectedOnly(seg, st) ==
    IF st = "rejected" THEN seg.orig ELSE << >>

\* case "delete": if (st === "rejected" || st === "pending") orig
DeleteText(seg, st) ==
    IF st = "rejected" \/ st = "pending" THEN seg.orig ELSE << >>

\* ReplaceText taking the suggestion unless it was rejected
ReplaceTextUnlessRejected(seg, st) ==
    IF st = "rejected" THEN seg.orig ELSE seg.suggested

\* case "replace": if (st === "accepted") suggested else orig
ReplaceText(seg, st) ==
    IF st = "accepted" THEN seg.suggested ELSE seg.orig

\* case "insert": if (st === "accepted") suggested
InsertText(seg, st) ==
    IF st = "accepted" THEN seg.suggested ELSE << >>

\* DefaultText leaving the segment out
DefaultTextDropped(seg, st) == << >>

\* default: finalText += seg.orig || ""
DefaultText(seg, st) == seg.orig

\* the switch (seg.op): what one segment adds to finalText
SegmentText(seg, st) ==
    CASE seg.op = "equal" -> seg.orig
      [] seg.op = "delete" -> DeleteText(seg, st)
      [] seg.op = "replace" -> ReplaceText(seg, st)
      [] seg.op = "insert" -> InsertText(seg, st)
      [] OTHER -> DefaultText(seg, st)

\* diffSegments.forEach((seg, idx) => { ... }) from the i-th segment on
RECURSIVE FinalTextFrom(_, _, _)
FinalTextFrom(segs, st, i) ==
    IF i > Len(segs) THEN << >>
    ELSE SegmentText(segs[i], StateAt(st, i)) \o FinalTextFrom(segs, st, i + 1)

\* let finalText = ""; diffSegments.forEach(...)
FinalText(segs, st) == FinalTextFrom(segs, st, 1)

\* onTextChange has not been called
NotDelivered == [ called |-> FALSE ]

\* onTextChange(finalText), with the segments and the states of the render
\* whose effect made the call, and whether these states were made from the
\* initial decisions of these segments
Delivery(segs, st, gen) ==
    [ called |-> TRUE, finalText |-> FinalText(segs, st),
      segments |-> segs, states |-> st, fresh |-> gen.states = gen.segments ]

\* setStates(value), called by the reset effect for list number gen
SetStates(value, gen) ==
    [ idx |-> 0, newState |-> "", value |-> value, gen |-> gen ]

\* setStates((prev) => { const next = [...prev]; next[idx] = newState;
\* return next; })
SetStateAt(idx, newState) ==
    [ idx |-> idx, newState |-> newState, value |-> << >>, gen |-> 0 ]

\* next[idx] = newState on a copy of prev: the array grows to idx when idx
\* is past its end, the positions between read as undefined
WriteAt(prev, idx, newState) ==
    [ i \in 1 .. (IF idx > Len(prev) THEN idx ELSE Len(prev)) |->
        IF i = idx THEN newState ELSE StateAt(prev, i) ]

\* the value of states after update u
ApplyUpdate(prev, u) ==
    IF u.idx = 0 THEN u.value ELSE WriteAt(prev, u.idx, u.newState)

\* the value of states after the updates of the queue q, from the i-th on
RECURSIVE ApplyQueue(_, _, _)
ApplyQueue(prev, q, i) ==
    IF i > Len(q) THEN prev
    ELSE ApplyQueue(ApplyUpdate(prev, q[i]), q, i + 1)

\* number of the list whose initial decisions the queue q puts in states
RECURSIVE GenAfter(_, _, _)
GenAfter(gen, q, i) ==
    IF i > Len(q) THEN gen
    ELSE GenAfter(IF q[i].idx = 0 THEN q[i].gen ELSE gen, q, i + 1)

\* spans of the segments: "A ", "X", "B", "C", " D", "M", "N"
SpanA == << "A", " " >>

SpanX == << "X" >>

SpanB == << "B" >>

SpanC == << "C" >>

SpanD == << " ", "D" >>

SpanM == << "M" >>

SpanN == << "N" >>

SegEqual == Segment("equal", SpanA, SpanA)

SegDelete == Segment("delete", SpanX, << >>)

SegReplace == Segment("replace", SpanB, SpanC)

SegInsert == Segment("insert", << >>, SpanD)

\* a segment with an op the switch does not know
SegMove == Segment("move", SpanM, SpanN)

SegmentRecords == { SegEqual, SegDelete, SegReplace, SegInsert, SegMove }

\* the segment lists of up to MaxSegs segments
SegmentLists ==
    UNION { [1 .. n -> SegmentRecords] : n \in 0 .. MaxSegs }

Decisions == { "accepted", "rejected", "pending" }

\* the decision arrays with one decision per segment of segs
DecisionLists(segs) == [DOMAIN segs -> Decisions]

\* the lists a DiffInline is given: the example of the specification, a
\* delete alone, a delete before an equal, an unknown op, the empty list
ListExample == << SegEqual, SegReplace, SegInsert >>

ListDelete == << SegDelete >>

ListSwapped == << SegDelete, SegEqual >>

ListMove == << SegEqual, SegMove >>

ListEmpty == << >>

DiffLists == { ListExample, ListDelete, ListSwapped, ListMove, ListEmpty }

----------------------------------------------------------------------------
\* matchedPage before detectMatchedPage has returned
NotReturned == << "none", 0 >>

\* The App component after its first render
InitApp ==
    /\ pdfLoaded = FALSE
    /\ documentData = 0
    /\ currentPdfPage = 1
    /\ pdfBlobUrl = NullUrl
    /\ currentPdfObjectRef = NullUrl
    /\ isHighlighting = FALSE
    /\ backendError = "null"
    /\ cache = EmptyMap
    /\ reqs = << >>
    /\ net = {}
    /\ timers = 0
    /\ tasks = {}
    /\ revoked = {}
    /\ docVersion = 0
    /\ clears = 0
    /\ retired = {}
    /\ lastCall = 0

\* normalize before it has returned
NotCalled == [ threw |-> FALSE, called |-> FALSE ]

\* no call of normalize is followed
IdleNormalize ==
    /\ normArg = Undefined
    /\ normResult = Returns(<< >>)

\* CmcViewer is not mounted
IdleViewer ==
    /\ cmcViewer = [ ViewerStart EXCEPT !.effect = "done" ]
    /\ IdleNormalize

\* DiffInline is not mounted
IdleDiff ==
    /\ diffSegments = << >>
    /\ states = << >>
    /\ queue = << >>
    /\ effects = "done"
    /\ delivered = NotDelivered
    /\ generation = [ segments |-> 0, states |-> 0 ]

\* no validation has been run, no approval sent
NoTarget == << 0, 0 >>

NotApproved == [ sent |-> FALSE, target |-> NoTarget, validated |-> NoTarget,
                 status |-> "null" ]

\* commentCache[idx] || { selectedCmcIndex: 0, sections: {}, ... }: the
\* first section is selected, no section holds a rewrite
EmptyCommentCache ==
    [ r \in 1 .. MaxResults |-> [ selectedCmcIndex |-> 1, sections |-> {} ] ]

\* no rewrite has been generated
NoRewrites == [ r \in 1 .. MaxResults |-> [ c \in 1 .. MaxSections |-> 0 ] ]

\* CommentPanel after its first render, on the first result of the first
\* batch
IdlePanel ==
    /\ uiMode = "default"
    /\ commentCache = EmptyCommentCache
    /\ validationStatus = "null"
    /\ currentResultIndex = 1
    /\ validatedFor = NoTarget
    /\ approved = NotApproved
    /\ batch = 1
    /\ rewrittenFor = NoRewrites

\* DiffInline is not mounted, CommentPanel has just been rendered
IdleComponents ==
    /\ IdleDiff
    /\ IdlePanel

\* no call of detectMatchedPage is followed
Init ==
    /\ InitApp
    /\ sectionText = << >>
    /\ documentPages = NoDocument
    /\ matchedPage = NotReturned
    /\ pageScores = << >>
    /\ IdleViewer
    /\ IdleComponents

\* detectMatchedPage is about to be called with an excerpt and a document
InitLocator ==
    /\ InitApp
    /\ sectionText \in SectionTexts
    /\ documentPages \in Documents
    /\ matchedPage = NotReturned
    /\ pageScores = << >>
    /\ IdleViewer
    /\ IdleComponents

\* CmcViewer is mounted with an excerpt and a document, and
\* detectMatchedPage is about to be called with the same two
InitViewer ==
    /\ InitApp
    /\ sectionText \in ViewerTexts
    /\ documentPages \in ViewerDocuments
    /\ matchedPage = NotReturned
    /\ pageScores = << >>
    /\ cmcViewer = ViewerStart
    /\ IdleNormalize
    /\ IdleComponents

\* normalize is about to be called
InitNormalize ==
    /\ InitApp
    /\ sectionText = << >>
    /\ documentPages = NoDocument
    /\ matchedPage = NotReturned
    /\ pageScores = << >>
    /\ cmcViewer = [ ViewerStart EXCEPT !.effect = "done" ]
    /\ normArg \in NormArgs
    /\ normResult = NotCalled
    /\ IdleComponents

\* no call of detectMatchedPage, no CmcViewer
IdleLocator ==
    /\ sectionText = << >>
    /\ documentPages = NoDocument
    /\ matchedPage = NotReturned
    /\ pageScores = << >>
    /\ IdleViewer

\* the final-text effect is about to run on a segment list and a decision
\* array with one decision per segment
InitFinalText ==
    /\ InitApp
    /\ IdleLocator
    /\ diffSegments \in SegmentLists
    /\ states \in DecisionLists(diffSegments)
    /\ queue = << >>
    /\ effects = "states"
    /\ delivered = NotDelivered
    /\ generation = [ segments |-> 1, states |-> 1 ]
    /\ IdlePanel

\* DiffInline has rendered for the first time, with a segment list
InitDiff ==
    /\ InitApp
    /\ IdleLocator
    /\ diffSegments \in DiffLists
    /\ states = << >>
    /\ queue = << >>
    /\ effects = "segments"
    /\ delivered = NotDelivered
    /\ generation = [ segments |-> 1, states |-> 0 ]
    /\ IdlePanel

\* CommentPanel shows the first result of a batch
InitPanel ==
    /\ InitApp
    /\ IdleLocator
    /\ IdleComponents

----------------------------------------------------------------------------
(* setPdfBlobObjectUrl: revoke the URL held, remember the new one if it is  *)
(* a blob, hand the new one to the viewer                                   *)

SetPdfBlobObjectUrl(url) ==
    /\ revoked' = IF IsBlob(currentPdfObjectRef)
                  THEN revoked \cup {currentPdfObjectRef}
                  ELSE revoked
    /\ currentPdfObjectRef' = IF IsBlob(url) THEN url ELSE NullUrl
    /\ pdfBlobUrl' = url

----------------------------------------------------------------------------
(* handleHighlightSection *)

\* TooShort turning away the empty excerpt only
TooShortEmptyOnly(str) == Len(str) = 0

\* !sectionText || sectionText.length < 20
TooShort(str) == Len(str) = 0 \/ Len(str) < 20

\* The request in flight of call r
NetOf(r) == CHOOSE m \in net : m.r = r

\* The synchronous part of the call, up to the return or the await, page
\* being the page set when the call is made
HighlightSectionAt(t, page) ==
    LET str == Excerpts[t]
        key == KeyOf[t]
        r == Len(reqs) + 1
    IN  /\ pdfLoaded
        /\ Len(reqs) < MaxRequests
        /\ IF TooShort(str)
           THEN /\ currentPdfPage' = page
                /\ UNCHANGED << reqs, net, pdfBlobUrl, currentPdfObjectRef,
                                revoked, isHighlighting, retired >>
           ELSE IF CacheHas(key)
           THEN LET cached == cache[key]
                IN  /\ SetPdfBlobObjectUrl(cached.blobUrl)
                    /\ currentPdfPage' = IF Truthy(cached.pageNum)
                                         THEN cached.pageNum[2]
                                         ELSE page
                    /\ isHighlighting' = FALSE
                    /\ reqs' = Append(reqs, [ text |-> t, st |-> "hit",
                                              promise |-> "fulfilled" ])
                    /\ retired' = retired \ {key}
                    /\ UNCHANGED net
           ELSE /\ isHighlighting' = TRUE
                /\ reqs' = Append(reqs, [ text |-> t, st |-> "awaiting",
                                          promise |-> "pending" ])
                /\ retired' = retired \ {key}
                /\ net' = net \cup {[ r |-> r, ver |-> docVersion,
                                      clr |-> clears ]}
                /\ currentPdfPage' = page
                /\ UNCHANGED << pdfBlobUrl, currentPdfObjectRef, revoked >>
        /\ UNCHANGED << pdfLoaded, documentData, backendError, cache, timers,
                        tasks, docVersion, clears >>
        /\ UNCHANGED otherVars

\* A call of handleHighlightSection by itself
handleHighlightSection(t) == HighlightSectionAt(t, currentPdfPage)

\* String.fromCharCode on the code units of the excerpts: the blank and the
\* small letters
CharOf(code) == IF code = 32 THEN " " ELSE LowerCase[code - 96]

FromCharCodes(str) == [i \in DOMAIN str |-> CharOf(str[i])]

\* "cover sheet"
PageCover ==
    << "c", "o", "v", "e", "r", " ", "s", "h", "e", "e", "t" >>

\* The answer of GET /cmc/document for version v of the document: a cover
\* sheet, then a page with the text of each excerpt; the versions differ in
\* the order of these two pages
PagesOfVersion(v) ==
    IF v % 2 = 1
    THEN << PageWithText(1, PageCover),
            PageWithText(2, FromCharCodes(ExcerptA)),
            PageWithText(3, FromCharCodes(ExcerptB)) >>
    ELSE << PageWithText(1, PageCover),
            PageWithText(2, FromCharCodes(ExcerptB)),
            PageWithText(3, FromCharCodes(ExcerptA)) >>

\* documentData as an argument of detectMatchedPage; 0 is null
DocumentOf(v) == IF v = 0 THEN NoDocument ELSE Document(PagesOfVersion(v))

\* detectMatchedPage(sectionText) of the App component, for the excerpt t
\* and the index of version v, as a table
MatchedPageOf ==
    [ t \in TextIds |->
        [ v \in 0 .. MaxVersions |->
            detectMatchedPage(FromCharCodes(Excerpts[t]), DocumentOf(v)) ] ]

\* handleNextResult and handlePrevResult for a result whose excerpt is t,
\* up to the await inside handleHighlightSection: detectMatchedPage on the
\* index held, the page jump, then the call
handleNextResult(t) ==
    LET matchedPage_ == MatchedPageOf[t][documentData]
    IN  /\ Len(Excerpts[t]) > 20
        /\ HighlightSectionAt(t, IF Truthy(matchedPage_) THEN matchedPage_[2]
                                 ELSE currentPdfPage)
        /\ lastCall' = 0

\* HighlightSuccess storing the result only when no later call was issued
HighlightSuccessLatestOnly(r, hdr) ==
    LET t == reqs[r].text
        key == KeyOf[t]
        blobUrl == HighlightBlob(r)
        pageNum == PageNumOf(hdr)
    IN  /\ reqs[r].st = "awaiting"
        /\ SetPdfBlobObjectUrl(blobUrl)
        /\ currentPdfPage' = IF IsPageHint(pageNum) THEN pageNum[2]
                             ELSE currentPdfPage
        /\ cache' = IF r < Len(reqs) THEN cache
                    ELSE CacheSet(key, [ blobUrl |-> blobUrl, text |-> t,
                                         pageNum |-> pageNum,
                                         ver |-> NetOf(r).ver,
                                         clr |-> NetOf(r).clr ])
        /\ timers' = timers + 1
        /\ reqs' = [reqs EXCEPT ![r].st = "done", ![r].promise = "fulfilled"]
        /\ net' = net \ {NetOf(r)}
        /\ UNCHANGED << pdfLoaded, documentData, isHighlighting, backendError,
                        tasks, docVersion, clears, retired >>
        /\ lastCall' = 0
        /\ UNCHANGED otherVars

\* The continuation after the await when the POST /cmc/highlight succeeded,
\* hdr being the x-highlight-page header of the response
HighlightSuccess(r, hdr) ==
    LET t == reqs[r].text
        key == KeyOf[t]
        blobUrl == HighlightBlob(r)
        pageNum == PageNumOf(hdr)
    IN  /\ reqs[r].st = "awaiting"
        /\ SetPdfBlobObjectUrl(blobUrl)
        /\ currentPdfPage' = IF IsPageHint(pageNum) THEN pageNum[2]
                             ELSE currentPdfPage
        /\ cache' = CacheSet(key, [ blobUrl |-> blobUrl, text |-> t,
                                    pageNum |-> pageNum,
                                    ver |-> NetOf(r).ver,
                                    clr |-> NetOf(r).clr ])
        /\ timers' = timers + 1
        /\ reqs' = [reqs EXCEPT ![r].st = "done", ![r].promise = "fulfilled"]
        /\ net' = net \ {NetOf(r)}
        /\ UNCHANGED << pdfLoaded, documentData, isHighlighting, backendError,
                        tasks, docVersion, clears, retired >>
        /\ lastCall' = 0
        /\ UNCHANGED otherVars

\* HighlightFailure remembering the failure in the cache
HighlightFailureCached(r) ==
    /\ reqs[r].st = "awaiting"
    /\ cache' = CacheSet(KeyOf[reqs[r].text],
                         [ blobUrl |-> NullUrl, text |-> reqs[r].text,
                           pageNum |-> Null, ver |-> NetOf(r).ver,
                           clr |-> NetOf(r).clr ])
    /\ timers' = timers + 1
    /\ reqs' = [reqs EXCEPT ![r].st = "failed", ![r].promise = "fulfilled"]
    /\ net' = net \ {NetOf(r)}
    /\ UNCHANGED << pdfLoaded, documentData, currentPdfPage, pdfBlobUrl,
                    currentPdfObjectRef, isHighlighting, backendError,
                    tasks, revoked, docVersion, clears, retired >>
    /\ lastCall' = 0
    /\ UNCHANGED otherVars

\* HighlightFailure leaving without the finally block
HighlightFailureNoTimer(r) ==
    /\ reqs[r].st = "awaiting"
    /\ reqs' = [reqs EXCEPT ![r].st = "failed", ![r].promise = "fulfilled"]
    /\ net' = net \ {NetOf(r)}
    /\ UNCHANGED << pdfLoaded, documentData, currentPdfPage, pdfBlobUrl,
                    currentPdfObjectRef, isHighlighting, backendError, cache,
                    timers, tasks, revoked, docVersion, clears, retired >>
    /\ lastCall' = 0
    /\ UNCHANGED otherVars

\* The continuation after the await when the POST failed: catch logs to the
\* console, finally arms the timer, the async function returns normally
HighlightFailure(r) ==
    /\ reqs[r].st = "awaiting"
    /\ timers' = timers + 1
    /\ reqs' = [reqs EXCEPT ![r].st = "failed", ![r].promise = "fulfilled"]
    /\ net' = net \ {NetOf(r)}
    /\ UNCHANGED << pdfLoaded, documentData, currentPdfPage, pdfBlobUrl,
                    currentPdfObjectRef, isHighlighting, backendError, cache,
                    tasks, revoked, docVersion, clears, retired >>
    /\ lastCall' = 0
    /\ UNCHANGED otherVars

\* setTimeout(() => setIsHighlighting(false), 600)
TimerFire ==
    /\ timers > 0
    /\ timers' = timers - 1
    /\ isHighlighting' = FALSE
    /\ UNCHANGED << pdfLoaded, documentData, currentPdfPage, pdfBlobUrl,
                    currentPdfObjectRef, backendError, cache, reqs, net,
                    tasks, revoked, docVersion, clears, retired >>
    /\ lastCall' = 0
    /\ UNCHANGED otherVars

----------------------------------------------------------------------------
(* Document version changes: upload of a new PDF, applied edit.  A pending *)
(* continuation of a document handler is a record of tasks: who awaits     *)
(* (by), the version its handler call made (id), what it awaits (kind) and *)
(* the backend's version when the GET /cmc/document was sent (sent).       *)

\* pageNumber arguments of handlePdfUpdate
UpdatePages == { Null, Num(2) }

\* PdfUploadComponent reports a successful upload: the backend holds a new
\* document.  The handler runs up to its 500 ms sleep; when pdfLoaded turns
\* true the [pdfLoaded] effect starts its own GET /cmc/document.
handlePdfUploadSuccess ==
    /\ docVersion < MaxVersions
    /\ docVersion' = docVersion + 1
    /\ pdfLoaded' = TRUE
    /\ tasks' = tasks
                \cup {[ kind |-> "sleep", by |-> "upload",
                        id |-> docVersion', sent |-> 0 ]}
                \cup ( IF pdfLoaded THEN {}
                       ELSE {[ kind |-> "fetch", by |-> "effect",
                               id |-> docVersion', sent |-> docVersion' ]} )
    /\ UNCHANGED << documentData, currentPdfPage, pdfBlobUrl,
                    currentPdfObjectRef, isHighlighting, backendError, cache,
                    reqs, net, timers, revoked, clears, retired >>
    /\ lastCall' = 0
    /\ UNCHANGED otherVars

\* The sleep of handlePdfUploadSuccess ends: GET /cmc/document is sent
UploadSleepDone(task) ==
    /\ task \in tasks
    /\ task.kind = "sleep"
    /\ tasks' = (tasks \ {task})
                \cup {[ task EXCEPT !.kind = "fetch", !.sent = docVersion ]}
    /\ UNCHANGED << pdfLoaded, documentData, currentPdfPage, pdfBlobUrl,
                    currentPdfObjectRef, isHighlighting, backendError, cache,
                    reqs, net, timers, revoked, docVersion, clears, retired >>
    /\ lastCall' = 0
    /\ UNCHANGED otherVars

\* handlePdfUpdate(blobUrl, pageNumber), up to its await
handlePdfUpdate(pageNumber) ==
    /\ pdfLoaded
    /\ docVersion < MaxVersions
    /\ docVersion' = docVersion + 1
    /\ currentPdfPage' = IF Truthy(pageNumber) THEN pageNumber[2]
                         ELSE currentPdfPage
    /\ SetPdfBlobObjectUrl(UpdateBlob(docVersion'))
    /\ cache' = EmptyMap
    /\ clears' = clears + 1
    /\ retired' = retired \cup DOMAIN cache
    /\ tasks' = tasks \cup {[ kind |-> "fetch", by |-> "update",
                              id |-> docVersion', sent |-> docVersion' ]}
    /\ UNCHANGED << pdfLoaded, documentData, isHighlighting, backendError,
                    reqs, net, timers >>
    /\ lastCall' = 0
    /\ UNCHANGED otherVars

\* A GET /cmc/document answers with the index of version v, a version the
\* backend held between the sending and the answer
DocFetchOk(task, v) ==
    /\ task \in tasks
    /\ task.kind = "fetch"
    /\ v \in task.sent .. docVersion
    /\ documentData' = v
    /\ pdfBlobUrl' = IF task.by = "upload" THEN StaticPdfUrl ELSE pdfBlobUrl
    /\ tasks' = tasks \ {task}
    /\ UNCHANGED << pdfLoaded, currentPdfPage, currentPdfObjectRef,
                    isHighlighting, backendError, cache, reqs, net, timers,
                    revoked, docVersion, clears, retired >>
    /\ lastCall' = 0
    /\ UNCHANGED otherVars

\* A GET /cmc/document fails
DocFetchFail(task) ==
    /\ task \in tasks
    /\ task.kind = "fetch"
    /\ backendError' =
         CASE task.by = "upload" ->
                "Failed to load document data - backend error"
           [] task.by = "effect" -> "Failed to load document data"
           [] OTHER -> backendError
    /\ tasks' = tasks \ {task}
    /\ UNCHANGED << pdfLoaded, documentData, currentPdfPage, pdfBlobUrl,
                    currentPdfObjectRef, isHighlighting, cache, reqs, net,
                    timers, revoked, docVersion, clears, retired >>
    /\ lastCall' = 0
    /\ UNCHANGED otherVars

----------------------------------------------------------------------------
(* Spec: the highlight cache and what the viewer is shown.  It runs the    *)
(* highlight handler and the two handlers that change the document         *)
(* version.  The GET /cmc/document continuations of the document handlers  *)
(* write documentData, backendError and pdfBlobUrl, none of which the      *)
(* highlight handler reads; they run in SpecDoc, and stay pending here.    *)

Next ==
    \/ \E t \in TextIds : handleHighlightSection(t) /\ lastCall' = 0
    \/ \E r \in DOMAIN reqs : \E hdr \in Headers : HighlightSuccess(r, hdr)
    \/ \E r \in DOMAIN reqs : HighlightFailure(r)
    \/ TimerFire
    \/ handlePdfUploadSuccess
    \/ \E p \in UpdatePages : handlePdfUpdate(p)

Spec == Init /\ [][Next]_vars

(* SpecCalls: Spec with every call of handleHighlightSection recorded in  *)
(* lastCall, the calls that return at the length guard too, for at most   *)
(* MaxCalls calls that get past the guard.  SpecCallsFair adds that a     *)
(* timer that was set fires: the browser runs every setTimeout callback.  *)

Call(t) ==
    /\ Len(reqs) < MaxCalls
    /\ handleHighlightSection(t)
    /\ lastCall' = t

NextCalls ==
    \/ \E t \in TextIds : Call(t)
    \/ \E r \in DOMAIN reqs : \E hdr \in Headers : HighlightSuccess(r, hdr)
    \/ \E r \in DOMAIN reqs : HighlightFailure(r)
    \/ TimerFire
    \/ handlePdfUploadSuccess
    \/ \E p \in UpdatePages : handlePdfUpdate(p)

SpecCalls == Init /\ [][NextCalls]_vars

SpecCallsFair == SpecCalls /\ WF_vars(TimerFire)

(* SpecPage: the page the viewer is sent to.  The requests are made from  *)
(* the result list (handleNextResult, handlePrevResult), at most MaxCalls  *)
(* of them, while the document metadata of the uploads arrive.             *)

NextPage ==
    \/ \E t \in TextIds : Len(reqs) < MaxCalls /\ handleNextResult(t)
    \/ \E r \in DOMAIN reqs : \E hdr \in Headers : HighlightSuccess(r, hdr)
    \/ \E r \in DOMAIN reqs : HighlightFailure(r)
    \/ TimerFire
    \/ handlePdfUploadSuccess
    \/ \E task \in tasks : UploadSleepDone(task)
    \/ \E task \in tasks : \E v \in 1 .. MaxVersions : DocFetchOk(task, v)
    \/ \E task \in tasks : DocFetchFail(task)

SpecPage == Init /\ [][NextPage]_vars

(* SpecNav: SpecPage with the page buttons of PdfPageViewer               *)
(* (src/frontend/src/components/PdfPageViewer.jsx), which App renders      *)
(* with pageNumber={currentPdfPage}, totalPages={documentData?.num_pages   *)
(* || 0} and setCurrentPdfPage as onPageChange and onGoToPage as soon as   *)
(* pdfLoaded is true.                                                      *)

\* documentData?.num_pages || 0
TotalPages ==
    IF documentData = 0 THEN 0 ELSE Len(PagesOfVersion(documentData))

\* Math.max(a, b), Math.min(a, b)
MathMax(a, b) == IF a >= b THEN a ELSE b

MathMin(a, b) == IF a <= b THEN a ELSE b

\* onClick of 'Prev': onPageChange(Math.max(1, pageNumber - 1))
PrevClick ==
    /\ pdfLoaded
    /\ currentPdfPage' = MathMax(1, currentPdfPage - 1)
    /\ UNCHANGED << pdfLoaded, documentData, pdfBlobUrl, currentPdfObjectRef,
                    isHighlighting, backendError, cache, reqs, net, timers,
                    tasks, revoked, docVersion, clears, retired >>
    /\ lastCall' = 0
    /\ UNCHANGED otherVars

\* onClick of 'Next': onPageChange(Math.min(totalPages, pageNumber + 1))
NextClick ==
    /\ pdfLoaded
    /\ currentPdfPage' = MathMin(TotalPages, currentPdfPage + 1)
    /\ UNCHANGED << pdfLoaded, documentData, pdfBlobUrl, currentPdfObjectRef,
                    isHighlighting, backendError, cache, reqs, net, timers,
                    tasks, revoked, docVersion, clears, retired >>
    /\ lastCall' = 0
    /\ UNCHANGED otherVars

\* what the user may answer to prompt("Go to page number:"): nothing
\* (Cancel or an empty line), "0", "2", "9", "x"
PromptAnswers == { << >>, << "0" >>, << "2" >>, << "9" >>, << "x" >> }

\* isNaN(page) of a string of digits and letters: it is no number when a
\* character is no digit
IsNaNText(page) == \E i \in DOMAIN page : ~IsDigit(page[i])

\* page && !isNaN(page) && pageNum >= 1 && pageNum <= totalPages
GoToAccepted(page) ==
    /\ Len(page) > 0
    /\ ~IsNaNText(page)
    /\ parseInt(page)[2] >= 1
    /\ parseInt(page)[2] <= TotalPages

\* onClick of 'Go to Page' with the answer page: onGoToPage(pageNum) when
\* the answer is accepted, an alert or nothing otherwise
GoToPageClick(page) ==
    /\ pdfLoaded
    /\ currentPdfPage' = IF GoToAccepted(page) THEN parseInt(page)[2]
                         ELSE currentPdfPage
    /\ UNCHANGED << pdfLoaded, documentData, pdfBlobUrl, currentPdfObjectRef,
                    isHighlighting, backendError, cache, reqs, net, timers,
                    tasks, revoked, docVersion, clears, retired >>
    /\ lastCall' = 0
    /\ UNCHANGED otherVars

NextNav ==
    \/ \E t \in TextIds : Len(reqs) < MaxCalls /\ handleNextResult(t)
    \/ \E r \in DOMAIN reqs : \E hdr \in Headers : HighlightSuccess(r, hdr)
    \/ \E r \in DOMAIN reqs : HighlightFailure(r)
    \/ TimerFire
    \/ handlePdfUploadSuccess
    \/ \E task \in tasks : UploadSleepDone(task)
    \/ \E task \in tasks : \E v \in 1 .. MaxVersions : DocFetchOk(task, v)
    \/ \E task \in tasks : DocFetchFail(task)
    \/ PrevClick
    \/ NextClick
    \/ \E page \in PromptAnswers : GoToPageClick(page)

SpecNav == Init /\ [][NextNav]_vars

(* SpecDoc: the document handlers and their continuations *)

NextDoc ==
    \/ handlePdfUploadSuccess
    \/ \E p \in UpdatePages : handlePdfUpdate(p)
    \/ \E task \in tasks : UploadSleepDone(task)
    \/ \E task \in tasks : \E v \in 1 .. MaxVersions : DocFetchOk(task, v)
    \/ \E task \in tasks : DocFetchFail(task)

SpecDoc == Init /\ [][NextDoc]_vars

----------------------------------------------------------------------------
(* SpecLocator: one call of detectMatchedPage.  pageScores keeps the value *)
(* of the local variable score at the end of each round of the loop; it is *)
(* empty when the function returns before the loop.                        *)

Locate ==
    /\ matchedPage = NotReturned
    /\ matchedPage' = detectMatchedPage(sectionText, documentPages)
    /\ pageScores' =
         IF LocatorGuard(sectionText, documentPages)
            \/ Len(Tokenize(Normalize(sectionText))) = 0
            \/ ScanThrows(documentPages.pages)
         THEN << >>
         ELSE [ i \in DOMAIN documentPages.pages |->
                  ScoreOf(documentPages.pages[i],
                          Tokenize(Normalize(sectionText))) ]
    /\ UNCHANGED << sectionText, documentPages >>
    /\ UNCHANGED << appVars, viewVars, diffVars, panelVars >>

NextLocator == Locate

SpecLocator == InitLocator /\ [][NextLocator]_vars

----------------------------------------------------------------------------
(* SpecViewer: the two copies of the locator on the same excerpt and page  *)
(* list, malformed page records included: one call of detectMatchedPage    *)
(* and one run of the auto-detect effect of CmcViewer.                     *)

AutoDetect ==
    /\ cmcViewer.effect = "pending"
    /\ cmcViewer' = AutoDetectEffect(cmcViewer, sectionText, documentPages)
    /\ UNCHANGED << normArg, normResult >>
    /\ UNCHANGED << appVars, locVars, diffVars, panelVars >>

NextViewer == Locate \/ AutoDetect

SpecViewer == InitViewer /\ [][NextViewer]_vars

----------------------------------------------------------------------------
(* DiffInline.  A render is followed by its effects, in the order of the  *)
(* source: the reset of states when diffSegments is a new list, then the   *)
(* final text, built from the states of that render.  A setStates call     *)
(* takes effect in the next render.                                        *)

\* effect on [diffSegments]: setStates(diffSegments.map(...))
ResetStates ==
    queue' = IF effects = "segments"
             THEN Append(queue, SetStates(InitialStates(diffSegments),
                                          generation.segments))
             ELSE queue

\* effect on [states, diffSegments, onTextChange]: no call of onTextChange
\* when the list is empty
BuildFinalText ==
    delivered' = IF Len(diffSegments) = 0 THEN delivered
                 ELSE Delivery(diffSegments, states, generation)

RunEffects ==
    /\ effects # "done"
    /\ ResetStates
    /\ BuildFinalText
    /\ effects' = "done"
    /\ UNCHANGED << diffSegments, states, generation >>
    /\ UNCHANGED << appVars, locVars, viewVars, panelVars >>

\* the render that follows setStates calls
Render ==
    /\ effects = "done"
    /\ queue # << >>
    /\ states' = ApplyQueue(states, queue, 1)
    /\ generation' = [ generation EXCEPT
                         !.states = GenAfter(generation.states, queue, 1) ]
    /\ queue' = << >>
    /\ effects' = "states"
    /\ UNCHANGED << diffSegments, delivered >>
    /\ UNCHANGED << appVars, locVars, viewVars, panelVars >>

\* the parent passes a new segment list: a render with the setStates calls
\* made so far
NewSegments(segs) ==
    /\ effects = "done"
    /\ generation.segments < MaxArrivals
    /\ diffSegments' = segs
    /\ states' = ApplyQueue(states, queue, 1)
    /\ generation' = [ segments |-> generation.segments + 1,
                       states |-> GenAfter(generation.states, queue, 1) ]
    /\ queue' = << >>
    /\ effects' = "segments"
    /\ UNCHANGED delivered
    /\ UNCHANGED << appVars, locVars, viewVars, panelVars >>

\* updateState(idx, newState, seg, actionType)
updateState(idx, newState) ==
    /\ queue' = Append(queue, SetStateAt(idx, newState))
    /\ UNCHANGED << diffSegments, states, effects, delivered, generation >>
    /\ UNCHANGED << appVars, locVars, viewVars, panelVars >>

\* HasButtons keeping the buttons of a decided segment
HasButtonsAlways(idx) ==
    /\ idx \in DOMAIN diffSegments
    /\ diffSegments[idx].op \in { "delete", "replace", "insert" }

\* the segment at idx is rendered with its two buttons: a delete, replace
\* or insert whose state is neither accepted nor rejected
HasButtons(idx) ==
    /\ idx \in DOMAIN diffSegments
    /\ diffSegments[idx].op \in { "delete", "replace", "insert" }
    /\ StateAt(states, idx) \notin { "accepted", "rejected" }

\* onClick of an accept or reject button
Click(idx, newState) ==
    /\ effects = "done"
    /\ Len(queue) < MaxQueue
    /\ HasButtons(idx)
    /\ updateState(idx, newState)

NextDiff ==
    \/ RunEffects
    \/ Render
    \/ \E segs \in DiffLists : NewSegments(segs)
    \/ \E idx \in 1 .. MaxSegs, newState \in { "accepted", "rejected" } :
          Click(idx, newState)

SpecDiff == InitDiff /\ [][NextDiff]_vars

----------------------------------------------------------------------------
(* CommentPanel (src/unnamed/part_003) with GuidelineValidator: rewrites   *)
(* per result and section, the validation status, the approval.  The       *)
(* requests (answer-section, validate, replace-paragraph) are taken with   *)
(* their answers.                                                          *)

\* result and section of sectionLlmData, the rewrite that is shown,
\* validated and applied
CurrentTarget ==
    << currentResultIndex, commentCache[currentResultIndex].selectedCmcIndex >>

\* sectionLlmData is defined
HasRewrite ==
    commentCache[currentResultIndex].selectedCmcIndex
        \in commentCache[currentResultIndex].sections

\* handleSelectSection(idx), from the section buttons of the default view
handleSelectSection(idx) ==
    /\ uiMode = "default"
    /\ commentCache' = [ commentCache EXCEPT
                           ![currentResultIndex].selectedCmcIndex = idx ]
    /\ UNCHANGED << uiMode, validationStatus, currentResultIndex,
                    validatedFor, approved >>
    /\ UNCHANGED << appVars, locVars, viewVars, diffVars, batchVars >>

\* handleAiRewrite with an answer that holds a rewrite
handleAiRewrite ==
    /\ uiMode = "default"
    /\ commentCache' =
         [ commentCache EXCEPT ![currentResultIndex].sections =
             @ \cup { commentCache[currentResultIndex].selectedCmcIndex } ]
    /\ rewrittenFor' =
         [ rewrittenFor EXCEPT
             ![currentResultIndex]
              [commentCache[currentResultIndex].selectedCmcIndex] = batch ]
    /\ UNCHANGED << uiMode, validationStatus, currentResultIndex,
                    validatedFor, approved, batch >>
    /\ UNCHANGED << appVars, locVars, viewVars, diffVars >>

\* onNextResult / onPrevResult, from the batch buttons of the default view
ShowResult(idx) ==
    /\ uiMode = "default"
    /\ idx \in { currentResultIndex - 1, currentResultIndex + 1 }
    /\ currentResultIndex' = idx
    /\ UNCHANGED << uiMode, commentCache, validationStatus, validatedFor,
                    approved >>
    /\ UNCHANGED << appVars, locVars, viewVars, diffVars, batchVars >>

\* 'Run Impact Change Analysis': setUiMode("impact"), rendered with the
\* rewrite of the section
OpenImpact ==
    /\ uiMode = "default"
    /\ HasRewrite
    /\ uiMode' = "impact"
    /\ UNCHANGED << commentCache, validationStatus, currentResultIndex,
                    validatedFor, approved >>
    /\ UNCHANGED << appVars, locVars, viewVars, diffVars, batchVars >>

\* onBack={() => setUiMode("default")}
onBack ==
    /\ uiMode = "impact"
    /\ uiMode' = "default"
    /\ UNCHANGED << commentCache, validationStatus, currentResultIndex,
                    validatedFor, approved >>
    /\ UNCHANGED << appVars, locVars, viewVars, diffVars, batchVars >>

\* what handleValidate passes to onValidationStatusChange: "none" without
\* violations, "violations", null when the request failed
ValidationOutcomes == { "none", "violations", "null" }

\* handleValidate of GuidelineValidator, on the rewrite it was opened with
handleValidate(outcome) ==
    /\ uiMode = "impact"
    /\ validationStatus' = outcome
    /\ validatedFor' = CurrentTarget
    /\ UNCHANGED << uiMode, commentCache, currentResultIndex, approved >>
    /\ UNCHANGED << appVars, locVars, viewVars, diffVars, batchVars >>

\* disabled={validationStatus !== "none" || loadingLlm}
ApproveDisabled == validationStatus # "none"

\* onClick of 'Approve Changes': POST /pdf/replace-paragraph with
\* sectionLlmData.suggested_cmc_rewrite; setValidationStatus(null) when the
\* request succeeded
ApproveChanges(ok) ==
    /\ uiMode = "impact"
    /\ ~ApproveDisabled
    /\ approved' = [ sent |-> TRUE, target |-> CurrentTarget,
                     validated |-> validatedFor, status |-> validationStatus ]
    /\ validationStatus' = IF ok THEN "null" ELSE validationStatus
    /\ UNCHANGED << uiMode, commentCache, currentResultIndex, validatedFor >>
    /\ UNCHANGED << appVars, locVars, viewVars, diffVars, batchVars >>

NextPanel ==
    \/ \E idx \in 1 .. MaxSections : handleSelectSection(idx)
    \/ handleAiRewrite
    \/ \E idx \in 1 .. MaxResults : ShowResult(idx)
    \/ OpenImpact
    \/ onBack
    \/ \E outcome \in ValidationOutcomes : handleValidate(outcome)
    \/ \E ok \in BOOLEAN : ApproveChanges(ok)

SpecPanel == InitPanel /\ [][NextPanel]_vars

(* SpecBatch: CommentPanel over several batches.  App renders CommentPanel *)
(* in every state and at the same place (logService.js:687-708), so its    *)
(* commentCache lives as long as the page.  currentResultIndex 0 is null:  *)
(* no batch is shown, and without a single review (handleRunReview, not    *)
(* modelled) answerData is null and the panel shows no result.             *)

\* a result is shown: the controls of the result area are rendered
HasResult == currentResultIndex \in 1 .. MaxResults

\* handleClearComments, from 'Start Over' of the default view:
\* setBatchResults([]), setCurrentResultIndex(null); handlePdfUploadSuccess
\* ends with the same calls (logService.js:196-200)
handleClearComments ==
    /\ uiMode = "default"
    /\ HasResult
    /\ currentResultIndex' = 0
    /\ UNCHANGED << uiMode, commentCache, validationStatus, validatedFor,
                    approved, batchVars >>
    /\ UNCHANGED << appVars, locVars, viewVars, diffVars >>

\* handleProcessBatch with the answer of POST /cmc/answer-batch, from
\* 'Process All' of the default view: setCurrentResultIndex(0),
\* setBatchResults(results) with the results of new comments
handleProcessBatch ==
    /\ uiMode = "default"
    /\ batch < MaxBatches
    /\ batch' = batch + 1
    /\ currentResultIndex' = 1
    /\ UNCHANGED << uiMode, commentCache, validationStatus, validatedFor,
                    approved, rewrittenFor >>
    /\ UNCHANGED << appVars, locVars, viewVars, diffVars >>

NextBatch ==
    \/ HasResult /\ NextPanel
    \/ handleClearComments
    \/ handleProcessBatch

SpecBatch == InitPanel /\ [][NextBatch]_vars

----------------------------------------------------------------------------
(* SpecUpdate: updateState called with any index, as a caller other than   *)
(* the rendered buttons may, on a list whose decisions are initialised     *)

\* the decision arrays of segs that clicks can make: one decision per
\* segment, accepted for the equal segments
SettledStates(segs) ==
    { st \in DecisionLists(segs) :
        \A i \in DOMAIN segs : segs[i].op = "equal" => st[i] = "accepted" }

InitUpdate ==
    /\ InitApp
    /\ IdleLocator
    /\ diffSegments \in SegmentLists
    /\ states \in SettledStates(diffSegments)
    /\ queue = << >>
    /\ effects = "done"
    /\ delivered = NotDelivered
    /\ generation = [ segments |-> 1, states |-> 1 ]
    /\ IdlePanel

CallUpdateState(idx, newState) ==
    /\ effects = "done"
    /\ queue = << >>
    /\ ~delivered.called
    /\ updateState(idx, newState)

NextUpdate ==
    \/ \E idx \in 1 .. MaxSegs + 1, newState \in { "accepted", "rejected" } :
          CallUpdateState(idx, newState)
    \/ Render
    \/ RunEffects

SpecUpdate == InitUpdate /\ [][NextUpdate]_vars

----------------------------------------------------------------------------
(* SpecFinalText: one run of the final-text effect on a segment list and   *)
(* a decision array drawn by the initial state                             *)

NextFinalText == RunEffects

SpecFinalText == InitFinalText /\ [][NextFinalText]_vars

----------------------------------------------------------------------------
(* SpecNormalize: one call of normalize of CmcViewer *)

CallNormalize ==
    /\ normResult = NotCalled
    /\ normResult' = normalize(normArg)
    /\ UNCHANGED << normArg, cmcViewer >>
    /\ UNCHANGED << appVars, locVars, diffVars, panelVars >>

NextNormalize == CallNormalize

SpecNormalize == InitNormalize /\ [][NextNormalize]_vars

----------------------------------------------------------------------------
(* Properties *)

\* The step is a logged call of handleHighlightSection with excerpt t
IsCall(t) == Len(reqs') = Len(reqs) + 1 /\ reqs'[Len(reqs')].text = t

\* The step is the successful completion of call r
IsSuccess(r) == reqs[r].st = "awaiting" /\ reqs'[r].st = "done"

\* The step is the failed completion of call r
IsFailure(r) == reqs[r].st = "awaiting" /\ reqs'[r].st = "failed"

\* The calls whose POST /cmc/highlight is in flight, for key k
Outstanding(k) ==
    { r \in DOMAIN reqs : reqs[r].st = "awaiting" /\ KeyOf[reqs[r].text] = k }

\* C1: request coalescing: for every fingerprint at most one backend
\* highlight call is outstanding at any time.
C1_Coalescing ==
    \A t \in TextIds : Cardinality(Outstanding(KeyOf[t])) <= 1

\* C2: last-request-wins: the result of a call A that completes after a
\* later call B, for another excerpt, was issued is not surfaced: the
\* completion of A changes neither the URL shown nor the current page.
C2_LastRequestWins ==
    [][ \A r \in DOMAIN reqs :
          ( /\ IsSuccess(r)
            /\ r < Len(reqs)
            /\ reqs[Len(reqs)].text # reqs[r].text )
            => (pdfBlobUrl' = pdfBlobUrl /\ currentPdfPage' = currentPdfPage)
      ]_vars

\* C3: cache hit: a call with an excerpt whose key has an entry surfaces the
\* entry's artifact in the same step and sends no backend request.
C3_CacheHit ==
    [][ \A t \in TextIds :
          (IsCall(t) /\ KeyOf[t] \in DOMAIN cache)
            => /\ pdfBlobUrl' = cache[KeyOf[t]].blobUrl
               /\ net' = net
               /\ reqs'[Len(reqs')].st = "hit"
               /\ cache' = cache
      ]_vars

\* C3 witness: the latest call was a cache hit and the viewer shows the URL
\* of the entry
C3_Witness ==
    /\ reqs # << >>
    /\ reqs[Len(reqs)].st = "hit"
    /\ KeyOf[reqs[Len(reqs)].text] \in DOMAIN cache
    /\ pdfBlobUrl = cache[KeyOf[reqs[Len(reqs)].text]].blobUrl

\* C4: wholesale invalidation on version change: the cache holds no entry
\* made for an earlier document version than the one the backend holds.
C4_WholesaleInvalidation ==
    \A k \in DOMAIN cache : cache[k].ver = docVersion

\* C5: after the cache was cleared, the next call for an excerpt the cache
\* held before the clear sends a backend request again.
C5_RefetchAfterInvalidation ==
    [][ \A t \in TextIds :
          (IsCall(t) /\ KeyOf[t] \in retired)
            => /\ reqs'[Len(reqs')].st = "awaiting"
               /\ net' # net
      ]_vars

\* C6: no cache entry is made from a backend call that was started before
\* the latest clear of the cache.
C6_NoStoreAfterInvalidation ==
    \A k \in DOMAIN cache : cache[k].clr = clears

\* C7: failures are not cached: the failed completion of a call leaves the
\* cache as it is, and a call for an excerpt of which a call has failed,
\* finding no entry made by a successful call, sends a backend request.
C7_FailuresNotCached ==
    [][ /\ \A r \in DOMAIN reqs : IsFailure(r) => cache' = cache
        /\ \A t \in TextIds :
             ( /\ IsCall(t)
               /\ \E r \in DOMAIN reqs :
                    reqs[r].st = "failed" /\ reqs[r].text = t
               /\ KeyOf[t] \notin DOMAIN cache )
               => /\ reqs'[Len(reqs')].st = "awaiting"
                  /\ net' # net
      ]_vars

\* C7 witness: the first call failed, its timer fired, and a second call for
\* the same excerpt is in flight, the cache being empty
C7_Witness ==
    /\ Len(reqs) = 2
    /\ reqs[1].st = "failed"
    /\ reqs[2].st = "awaiting"
    /\ reqs[2].text = reqs[1].text
    /\ timers = 0
    /\ isHighlighting
    /\ cache = EmptyMap

\* C8: a failed backend highlight call is surfaced to the caller: the
\* promise of the call is rejected.
C8_FailureSurfaced ==
    \A r \in DOMAIN reqs : reqs[r].st = "failed" => reqs[r].promise = "rejected"

KeyOfExcerptA == << 6, 1, 29, 29, 31, 31 >>
KeyOfExcerptB == << 1, 9, 9, 17, 5, 28, 31 >>

\* C14: fingerprint determinism: the key of an excerpt depends on its text
\* only: whatever calls were made before, whatever the cache holds and
\* whichever document version is loaded, an entry made for an excerpt is
\* kept under the one key of its text.
C14_KeyOfTextOnly ==
    \A k \in DOMAIN cache :
        /\ Excerpts[cache[k].text] = ExcerptA => k = KeyOfExcerptA
        /\ Excerpts[cache[k].text] = ExcerptB => k = KeyOfExcerptB

\* C14 witness: entries for both excerpts, made by the second and the third
\* call, after the cache was cleared and for different document versions
C14_Witness ==
    /\ Len(reqs) = 3
    /\ clears = 1
    /\ KeyOfExcerptA \in DOMAIN cache
    /\ KeyOfExcerptB \in DOMAIN cache
    /\ cache[KeyOfExcerptA].blobUrl # HighlightBlob(1)
    /\ cache[KeyOfExcerptB].blobUrl # HighlightBlob(1)
    /\ cache[KeyOfExcerptA].ver # cache[KeyOfExcerptB].ver

Finished(r) == r \in DOMAIN reqs /\ reqs[r].st \in {"hit", "done", "failed"}

\* C13: after a highlight request has finished (the latest request has
\* returned, or a request has returned and its timer is set), the
\* highlighting state returns to idle unless a further request is issued.
C13_ReturnsToIdle ==
    \A n \in 1 .. MaxCalls :
        ( /\ Len(reqs) = n
          /\ \/ Finished(n)
             \/ timers > 0 /\ \E r \in 1 .. n : Finished(r) )
          ~> (~isHighlighting \/ Len(reqs) > n)

\* C13 witness: the only request failed, its timer has fired and the
\* highlighting state is idle
C13_Witness ==
    /\ Len(reqs) = 1
    /\ reqs[1].st = "failed"
    /\ timers = 0
    /\ ~isHighlighting

\* what detectMatchedPage returns for the excerpt of call r on the index
\* held
LocatedFor(r) == MatchedPageOf[reqs[r].text][documentData]

\* C15: page-hint fallback: when a request resolves with a page hint, the
\* hint is the page surfaced; when it resolves without one, the page
\* surfaced is the page detectMatchedPage finds for the excerpt of the
\* request on the index held.
C15_PageHintFallback ==
    [][ \A r \in DOMAIN reqs :
          IsSuccess(r)
            => LET pageNum == cache'[KeyOf[reqs[r].text]].pageNum
               IN  /\ IsPageHint(pageNum) => currentPdfPage' = pageNum[2]
                   /\ (~IsPageHint(pageNum) /\ LocatedFor(r) # Null)
                        => currentPdfPage' = LocatedFor(r)[2]
      ]_vars

----------------------------------------------------------------------------
(* Properties of detectMatchedPage *)

\* detectMatchedPage has returned
Returned == matchedPage # NotReturned

\* the highest score of a page scanned, 0 when none was scanned
MaxScore ==
    IF pageScores = << >> THEN 0
    ELSE CHOOSE m \in { pageScores[i] : i \in DOMAIN pageScores } :
           \A i \in DOMAIN pageScores : pageScores[i] <= m

\* the positions in the index of the pages with the highest score
BestPositions == { i \in DOMAIN pageScores : pageScores[i] = MaxScore }

\* the least element of a non-empty set of numbers
Least(S) == CHOOSE n \in S : \A m \in S : n <= m

\* C16: locator selection rule: when a page scores above 0,
\* detectMatchedPage returns the page number of the first page in index
\* order whose score is the highest score of all pages.
C16_FirstBestPage ==
    (Returned /\ MaxScore > 0)
      => matchedPage
           = Num(documentPages.pages[Least(BestPositions)].page_number)

\* C16 witness: the excerpt "bananas crocodile diagram" on the pages
\* "alphabet bananas", "alphabet crocodile diagram": scores 1 and 2, page 2
C16_Witness ==
    /\ sectionText = TextExample
    /\ documentPages = Document(<< PageWithText(1, PageBananas),
                                   PageWithText(2, PageCrocodile) >>)
    /\ pageScores = << 1, 2 >>
    /\ matchedPage = Num(2)

C18_MatchThreshold ==
    Returned
      => ( matchedPage # Null
             <=> \E i \in DOMAIN pageScores : pageScores[i] >= 1 )

\* C18 witness: one page, scanned with score 1, is returned, a score no
\* higher minimum would accept
C18_Witness ==
    /\ pageScores = << 1 >>
    /\ matchedPage = Num(1)

\* the pieces of the normalized excerpt between single blanks
Pieces(text) == Split(Normalize(text), 1, << >>)

\* w occurs in text as a run of consecutive characters
OccursIn(w, text) ==
    \E j \in 0 .. Len(text) - Len(w) :
        \A k \in 1 .. Len(w) : text[j + k] = w[k]

\* C19: locator null cases: detectMatchedPage returns null when the
\* document index is missing or has no pages, when the excerpt is empty,
\* and when no piece of the excerpt is longer than 5 characters.
C19_NullCases ==
    ( /\ Returned
      /\ \/ ~documentPages.defined
         \/ documentPages.pages = << >>
         \/ sectionText = << >>
         \/ \A k \in DOMAIN Pieces(sectionText) :
                Len(Pieces(sectionText)[k]) <= 5 )
      => matchedPage = Null

\* C19 witness: the excerpt "alpha", of 5 characters, on a page that holds
\* "alphabet": null is returned and no page was scanned
C19_Witness ==
    /\ sectionText = TextAlpha
    /\ documentPages = Document(<< PageWithText(1, PageBananas) >>)
    /\ matchedPage = Null
    /\ pageScores = << >>

\* C20: score definition: the score of a page is the number of pieces of
\* the normalized excerpt that are longer than 5 characters and occur in
\* the normalized text of the page, inside a longer word or not.
C20_ScoreDefinition ==
    \A i \in DOMAIN pageScores :
        pageScores[i]
          = Cardinality({ k \in DOMAIN Pieces(sectionText) :
                /\ Len(Pieces(sectionText)[k]) > 5
                /\ OccursIn(Pieces(sectionText)[k],
                            Normalize(PageText(documentPages.pages[i]))) })

\* C20 witness: the excerpt "alpha banana" on the page "the bananasplit
\* diagrams": "banana" counts inside "bananasplit", "alpha" does not count
C20_Witness ==
    /\ sectionText = TextBanana
    /\ documentPages = Document(<< PageWithText(1, PageLonger) >>)
    /\ pageScores = << 1 >>
    /\ matchedPage = Num(1)

----------------------------------------------------------------------------
(* CmcViewer: failure mode of the locator, totality of normalize *)

\* C21: locating never ends by an exception and yields null on a malformed
\* page list: no run of a copy of the locator lets an exception reach its
\* caller, and on a page list holding a record whose text cannot be read
\* the page returned by detectMatchedPage and the page matched by CmcViewer
\* are null.
C21_LocatorFailureMode ==
    /\ cmcViewer.effect # "threw"
    /\ ScanThrows(documentPages.pages) =>
          /\ Returned => matchedPage = Null
          /\ cmcViewer.matchedPage = Null

\* the call of normalize followed has ended
NormalizeDone == "called" \notin DOMAIN normResult

\* C22: normalize is total: every call of normalize, on a string or on
\* undefined, returns a string, and returns the empty string for the empty
\* string and for undefined.
C22_NormalizeTotal ==
    NormalizeDone =>
        /\ ~normResult.threw
        /\ (normArg.type = "undefined" \/ normArg = Str(<< >>))
             => normResult = Returns(<< >>)

----------------------------------------------------------------------------
(* DiffInline: the final text *)

\* the span the reconstruction rule gives for a segment and its decision
RuleSpan(seg, decision) ==
    IF seg.op = "delete"
    THEN (IF decision = "accepted" THEN << >> ELSE seg.orig)
    ELSE IF seg.op \in { "replace", "insert" } /\ decision = "accepted"
    THEN seg.suggested
    ELSE IF seg.op = "insert" THEN << >>
    ELSE seg.orig

\* the spans of the rule for the first n segments, concatenated in order
RECURSIVE RuleText(_, _, _)
RuleText(segs, decisions, n) ==
    IF n = 0 THEN << >>
    ELSE RuleText(segs, decisions, n - 1) \o RuleSpan(segs[n], decisions[n])

\* decisions [accepted, accepted, rejected] on the example list
ExampleDecisions == << "accepted", "accepted", "rejected" >>

\* C23: final-text reconstruction: for every segment list and every
\* decision array with one decision per segment, the text passed to
\* onTextChange is the in-order concatenation of originalSpan for equal,
\* nothing or originalSpan for delete, suggestedSpan or originalSpan for
\* replace, suggestedSpan or nothing for insert (the first when accepted);
\* on the example list with [accepted, accepted, rejected] it is "A C".
C23_FinalTextRule ==
    delivered.called =>
        /\ delivered.finalText = RuleText(diffSegments, states, Len(diffSegments))
        /\ (diffSegments = ListExample /\ states = ExampleDecisions)
             => delivered.finalText = << "A", " ", "C" >>

\* the example list has been delivered with [accepted, accepted, rejected]
C23_Witness ==
    /\ delivered.called
    /\ diffSegments = ListExample
    /\ states = ExampleDecisions
    /\ delivered.finalText = << "A", " ", "C" >>

\* the final text in which a delete segment keeps its original unless its
\* decision is accepted, the other segments adding what the effect adds
RECURSIVE DeleteKeptText(_, _, _)
DeleteKeptText(segs, st, n) ==
    IF n = 0 THEN << >>
    ELSE DeleteKeptText(segs, st, n - 1)
         \o (IF segs[n].op = "delete"
             THEN (IF StateAt(st, n) = "accepted" THEN << >> ELSE segs[n].orig)
             ELSE SegmentText(segs[n], StateAt(st, n)))

\* C24: delete segments keep the original unless accepted: in every final
\* text passed to onTextChange a delete segment adds its originalSpan
\* whenever its decision is not accepted, and nothing only when it is.
C24_DeleteKeepsOriginal ==
    delivered.called =>
        delivered.finalText =
            DeleteKeptText(delivered.segments, delivered.states,
                           Len(delivered.segments))

\* the segments of the list with an op the switch does not know
UnknownOps ==
    { i \in DOMAIN diffSegments :
        diffSegments[i].op \notin { "equal", "delete", "insert", "replace" } }

\* C25: unknown operations never destroy original content: the final text
\* passed to onTextChange contains the originalSpan of every segment whose
\* op is none of equal, delete, insert, replace, whatever its decision.
C25_UnknownOpKeepsOriginal ==
    delivered.called =>
        \A i \in UnknownOps : OccursIn(diffSegments[i].orig, delivered.finalText)

\* a list with an unknown op has been delivered, its decision being accepted
C25_Witness ==
    /\ delivered.called
    /\ \E i \in UnknownOps : states[i] = "accepted"

----------------------------------------------------------------------------
(* DiffInline: the decisions *)

\* st holds one decision per segment of segs: accepted for the equal
\* segments, pending for the others
IsInitialised(st, segs) ==
    /\ Len(st) = Len(segs)
    /\ \A i \in DOMAIN segs :
          st[i] = (IF segs[i].op = "equal" THEN "accepted" ELSE "pending")

\* C26: decision initialisation: the array the reset effect passes to
\* setStates for a new segment list, and the value of states once the
\* render has applied it, hold exactly one decision per segment, accepted
\* for every equal segment and pending for every other.
C26_DecisionInit ==
    [][ /\ (effects = "segments" /\ effects' = "done")
            => IsInitialised(queue'[Len(queue')].value, diffSegments)
        /\ (queue # << >> /\ queue' = << >> /\ diffSegments' = diffSegments
             /\ queue[Len(queue)].idx = 0)
            => IsInitialised(states', diffSegments) ]_vars

\* the example list has arrived as a second list and its decisions have
\* been initialised
C26_Witness ==
    /\ generation = [ segments |-> 2, states |-> 2 ]
    /\ diffSegments = ListExample
    /\ states = << "accepted", "pending", "pending" >>

\* C27: fresh decisions per segment set: every final text passed to
\* onTextChange is built from states made from the initial decisions of
\* the segment list it is built for, never from the states of an earlier
\* list or of no list.
C27_FreshDecisions ==
    delivered.called => delivered.fresh

\* C28: equal segments are permanently accepted: in every state the
\* decision of every equal segment of the list is accepted.
C28_EqualAccepted ==
    \A i \in DOMAIN diffSegments :
        diffSegments[i].op = "equal" => StateAt(states, i) = "accepted"

\* update u is on an index outside the list or on an equal segment
IsInvalidUpdate(u) ==
    \/ u.idx \notin DOMAIN diffSegments
    \/ diffSegments[u.idx].op = "equal"

\* C29: invalid decision index fails fast: a call of updateState on an
\* equal segment or on an index outside the list leaves the decision array
\* as it is, in length and in every element.
C29_InvalidIndexRejected ==
    [][ (queue # << >> /\ queue' = << >> /\ \A k \in DOMAIN queue :
                                              IsInvalidUpdate(queue[k]))
        => states' = states ]_vars

----------------------------------------------------------------------------
(* CommentPanel: approval *)

\* C30: approval is gated on validation of what is applied: every
\* replacement sent by 'Approve Changes' was sent while the last validation
\* had passed without violations, and that validation was run on the
\* rewrite of the result and section whose rewrite is sent.
C30_ApprovalGated ==
    approved.sent =>
        /\ approved.status = "none"
        /\ approved.validated = approved.target

\* The blob URLs held in the entries of the highlight cache
CachedUrls == { cache[k].blobUrl : k \in DOMAIN cache }

\* C31: cached artifact handles stay live: no blob URL held in an entry of
\* the highlight cache has been revoked, and no step revokes a URL that the
\* cache holds after the step or that the step hands to the viewer.
C31_CachedHandlesLive ==
    /\ [](CachedUrls \cap revoked = {})
    /\ [][ \A url \in revoked' \ revoked :
             /\ url \notin { cache'[k].blobUrl : k \in DOMAIN cache' }
             /\ url # pdfBlobUrl'
         ]_vars

\* C32: the highlighting state tracks the outstanding work: while a POST
\* /cmc/highlight is in flight isHighlighting is true; neither a cache hit
\* nor the timer of an earlier request sets it to false.
C32_HighlightingTracksWork ==
    net # {} => isHighlighting = TRUE

----------------------------------------------------------------------------
(* CommentPanel: rewrites and batches *)

\* C33: rewrites are never stale across batches: the rewrite shown for the
\* current result and selected section, which is the one applied on
\* approval, was generated for that result in the current batch.
C33_RewriteOfCurrentBatch ==
    HasResult /\ HasRewrite =>
        rewrittenFor[CurrentTarget[1]][CurrentTarget[2]] = batch

----------------------------------------------------------------------------
(* DiffInline: rejecting and deciding *)

\* the decision array in which every equal segment is accepted and every
\* other segment has the decision given
AllDecided(segs, decision) ==
    [ i \in DOMAIN segs |->
        IF segs[i].op = "equal" THEN "accepted" ELSE decision ]

\* the originalSpan of the first n segments, concatenated in order
RECURSIVE OriginalText(_, _)
OriginalText(segs, n) ==
    IF n = 0 THEN << >> ELSE OriginalText(segs, n - 1) \o segs[n].orig

\* C34: rejecting everything restores the original: for every segment list
\* the final text passed to onTextChange with all non-equal decisions
\* pending, and the one with all of them rejected, is the concatenation of
\* originalSpan over all segments.
C34_RejectAllRestores ==
    ( /\ delivered.called
      /\ states \in { AllDecided(diffSegments, "pending"),
                      AllDecided(diffSegments, "rejected") } )
        => delivered.finalText = OriginalText(diffSegments, Len(diffSegments))

\* a delete, a replace and an insert, all rejected, have been delivered as
\* the text of the delete and of the replace
C34_Witness ==
    /\ delivered.called
    /\ diffSegments = << SegDelete, SegReplace, SegInsert >>
    /\ states = << "rejected", "rejected", "rejected" >>
    /\ delivered.finalText = SpanX \o SpanB

\* the decisions shown are those of the list shown, and the step neither
\* brings a new list nor renders the reset of the decisions
SameList ==
    /\ generation.states = generation.segments
    /\ generation' = generation

\* C35: decisions are final through the UI: between the initialisation of
\* the decisions of a segment list and the arrival of the next list, the
\* decision of a non-equal segment changes only from pending to accepted
\* or rejected; an accepted or rejected decision is not changed again.
C35_DecisionsFinal ==
    [][ SameList =>
          \A i \in DOMAIN diffSegments :
             ( /\ diffSegments[i].op # "equal"
               /\ StateAt(states', i) # StateAt(states, i) )
               => /\ StateAt(states, i) = "pending"
                  /\ StateAt(states', i) \in { "accepted", "rejected" }
      ]_vars

\* the replace of the example list has been accepted and its insert
\* rejected, and both decisions have been rendered
C35_Witness ==
    /\ generation.states = generation.segments
    /\ diffSegments = ListExample
    /\ states = << "accepted", "accepted", "rejected" >>
    /\ queue = << >>
    /\ effects = "done"

----------------------------------------------------------------------------
(* The copies of the page locator *)

\* detectMatchedPage and the auto-detect effect of CmcViewer have both run
\* on the excerpt and the page index
BothLocated == Returned /\ cmcViewer.effect # "pending"

\* C36: the copies of the page locator agree: on every excerpt and page
\* index the matcher of CmcViewer ends with the page detectMatchedPage
\* returns, or both end with no match.
C36_LocatorCopiesAgree ==
    BothLocated =>
        /\ cmcViewer.effect = "done"
        /\ cmcViewer.matchedPage = matchedPage

----------------------------------------------------------------------------
(* The page shown *)

\* C37: the current page stays in range: currentPdfPage is at least 1 and,
\* when the page index held has pages, at most their number, after any
\* sequence of Prev, Next and go-to-page clicks, locator jumps, page hints
\* of the service and cache hits.
C37_PageInRange ==
    /\ currentPdfPage >= 1
    /\ TotalPages > 0 => currentPdfPage <= TotalPages

====
